---- MODULE Spec2Model ----
(***************************************************************************)
(* Model of pmmg_receiver_gui_ver_gpt.py: the FileHandler session-file     *)
(* writer, the SerialReader worker thread (run loop, calibration, batch    *)
(* processing) and the two SerialDataSaver handlers that start and stop    *)
(* the worker.                                                             *)
(*                                                                         *)
(* A decoded line is the sequence of its comma-separated fields, each a    *)
(* string; the empty line is <<>>.  A full sensor record is abstracted     *)
(* from 15 fields to NFields: code, time, one number per segment           *)
(* quaternion (thigh, shank, foot) and pressure.                           *)
(***************************************************************************)
EXTENDS Integers, Sequences, FiniteSets, TLC

VARIABLES
    running,        \* SerialReader.running
    collecting,     \* SerialReader.collecting
    data_buffer,    \* SerialReader.data_buffer
    pose,           \* q_ti, q_si, q_fi, initial_knee_angle, initial_ankle_angle
    file,           \* FileHandler.file: index of the open file on disk, or None
    session_index,  \* FileHandler.session_index
    disk,           \* files on disk by session index: header, body, open handle
    pc,             \* position of the worker thread in run()
    serOpen,        \* the serial port object ser is open
    crashed,        \* run() ended by an exception leaving the loop
    startEnabled,   \* SerialDataSaver.start_btn is enabled
    guiWaiting,     \* the presentation thread is blocked in thread.wait()
    stopCalled,     \* stop() has been called on the current worker
    entered,        \* code of the line that last set collecting to True
    last,           \* the line the last read returned (<<>>: none)
    nlines,         \* number of non-empty lines handled so far
    starts,         \* number of workers started so far
    srcDown,        \* the line source has become unavailable
    emitted,        \* the signals the worker's last step emitted, in order
    seq104          \* the records since a 104 met Idle with no file open

vars == <<running, collecting, data_buffer, pose, file, session_index, disk,
          pc, serOpen, crashed, startEnabled, guiWaiting, stopCalled,
          entered, last, nlines, starts, srcDown, emitted, seq104>>

----------------------------------------------------------------------------
(* Bounds *)

\* non-empty lines the line source delivers in all
MaxLines == 6

\* times START is pressed
MaxStarts == 2

----------------------------------------------------------------------------
(* Values *)

None == -1

NFields == 6

NonePose ==
    [q_ti |-> None, q_si |-> None, q_fi |-> None,
     initial_knee_angle |-> None, initial_ankle_angle |-> None]

ControlCodes == {"102", "103", "104", "105"}

\* float(x) for the field texts that occur; a text outside the table raises
FloatTable ==
    ("0" :> 0) @@ ("1" :> 1) @@ ("3" :> 3) @@ ("5" :> 5) @@ ("10" :> 10)
    @@ ("20" :> 20) @@ ("999" :> 999)

IsNumeric(x) == x \in DOMAIN FloatTable

Float(x) == FloatTable[x]

\* the lines the line source may deliver
RecA == <<"0", "10", "1", "1", "1", "5">>

RecB == <<"999", "20", "3", "1", "1", "5">>

RecBad == <<"0", "abc">>

NoComma == <<"noise">>

Lines ==
    { <<"102", "0">>, <<"103", "0">>, <<"104", "0">>, <<"105", "0">>,
      <<"104", "abc">>, RecA, RecB, RecBad, NoComma }

----------------------------------------------------------------------------
(* FileHandler: fh is [file, session_index, disk] *)

\* open_new_file without the "already open" guard
open_new_file_unguarded(fh, header_data) ==
    [file |-> fh.session_index,
     session_index |-> fh.session_index + 1,
     disk |-> (fh.session_index :>
                 [header |-> header_data, body |-> <<>>, open |-> TRUE])
              @@ fh.disk]

open_new_file(fh, header_data) ==
    IF fh.file # None
    THEN fh
    ELSE [file |-> fh.session_index,
          session_index |-> fh.session_index + 1,
          disk |-> (fh.session_index :>
                      [header |-> header_data, body |-> <<>>, open |-> TRUE])
                   @@ fh.disk]

\* write_line that drops the line
write_line_dropped(fh, line) == fh

write_line(fh, line) ==
    IF fh.file # None
    THEN [fh EXCEPT !.disk[fh.file].body = Append(@, line)]
    ELSE fh

close_file(fh) ==
    IF fh.file # None
    THEN [fh EXCEPT !.disk[fh.file].open = FALSE, !.file = None]
    ELSE fh

----------------------------------------------------------------------------
(* Signals: a signal emitted is <<name>> or <<name, argument>> *)

state_changed(code) == <<"state_changed", code>>

initial_angles_calculated == <<"initial_angles_calculated">>

data_processed == <<"data_processed">>

SerialPortFailure == "ERROR - Serial Port Failure"

\* SerialDataSaver.update_status_label: the label shown for a status code
update_status_label(status_code) ==
    CASE status_code = "101" -> "Standby"
      [] status_code = "102" -> "Leg zeroing started"
      [] status_code = "103" -> "Leg zeroing stopped"
      [] status_code = "104" -> "Reading started"
      [] status_code = "105" -> "Reading stopped"
      [] status_code = "106" -> "Magnetometer calibrating"
      [] status_code = "201" -> "ERROR - Low voltage"
      [] status_code = "202" -> "ERROR - Sensor malfunction"
      [] OTHER -> "ERROR - ???"

----------------------------------------------------------------------------
(* SerialReader: s is the worker object, with exc set when a statement raised
   and ev the signals emitted so far *)

\* np.array([list(map(float, x.split(','))) for x in data_buffer]) and the
\* column indexing that follows succeed
ToArrayOk(buffer) ==
    \A i \in 1..Len(buffer) :
        /\ Len(buffer[i]) = NFields
        /\ \A j \in 1..NFields : IsNumeric(buffer[i][j])

RECURSIVE ColumnSum(_, _)
ColumnSum(buffer, col) ==
    IF buffer = <<>> THEN 0
    ELSE Float(Head(buffer)[col]) + ColumnSum(Tail(buffer), col)

\* np.mean over the samples of one segment
Mean(buffer, col) == ColumnSum(buffer, col) \div Len(buffer)

\* Quaternion.calculate_angle: unsigned separation of two orientations
calculate_angle(q1, q2) == IF q1 >= q2 THEN q1 - q2 ELSE q2 - q1

HeaderData(s) == s.pose

calculate_initial_state(s) ==
    IF s.data_buffer = <<>> THEN s
    ELSE IF ~ToArrayOk(s.data_buffer) THEN [s EXCEPT !.exc = TRUE]
    ELSE LET q_ti == Mean(s.data_buffer, 3)
             q_si == Mean(s.data_buffer, 4)
             q_fi == Mean(s.data_buffer, 5)
             s1 == [s EXCEPT !.pose =
                       [q_ti |-> q_ti, q_si |-> q_si, q_fi |-> q_fi,
                        initial_knee_angle |-> calculate_angle(q_ti, q_si),
                        initial_ankle_angle |-> calculate_angle(q_si, q_fi)]]
         IN  [s1 EXCEPT !.fh = open_new_file(s1.fh, HeaderData(s1)),
                        !.ev = Append(@, initial_angles_calculated)]

\* Quaternion.conj(q) unpacks q and Quaternion.mult(q, ...) takes its norm:
\* both raise TypeError for a pose field that is still None
QuatOk(q) == q # None

\* process_data that leaves the buffer as it is
process_data_keeps_buffer(s) ==
    IF s.data_buffer = <<>> THEN s
    ELSE IF ~ToArrayOk(s.data_buffer) THEN [s EXCEPT !.exc = TRUE]
    ELSE IF ~(QuatOk(s.pose.q_si) /\ QuatOk(s.pose.q_ti) /\ QuatOk(s.pose.q_fi))
    THEN [s EXCEPT !.exc = TRUE]
    ELSE [s EXCEPT !.ev = Append(@, data_processed)]

process_data(s) ==
    IF s.data_buffer = <<>> THEN s
    ELSE IF ~ToArrayOk(s.data_buffer) THEN [s EXCEPT !.exc = TRUE]
    ELSE IF ~(QuatOk(s.pose.q_si) /\ QuatOk(s.pose.q_ti) /\ QuatOk(s.pose.q_fi))
    THEN [s EXCEPT !.exc = TRUE]
    ELSE [s EXCEPT !.data_buffer = <<>>,
                   !.ev = Append(@, data_processed)]

\* the last branch of run(), lines 111-114, without its test of collecting
handle_record_unguarded(s, line) ==
    LET s1 == [s EXCEPT !.data_buffer = Append(@, line)] IN
    IF line[1] \notin ControlCodes
    THEN [s1 EXCEPT !.fh = write_line(s1.fh, line)]
    ELSE s1

\* the last branch of run(), lines 111-114
handle_record(s, line) ==
    IF s.collecting
    THEN LET s1 == [s EXCEPT !.data_buffer = Append(@, line)] IN
         IF line[1] \notin ControlCodes
         THEN [s1 EXCEPT !.fh = write_line(s1.fh, line)]
         ELSE s1
    ELSE s

\* the branches of run(), lines 90-114
Dispatch(s, line) ==
    LET state == line[1] IN
    IF state = "102"
    THEN [s EXCEPT !.data_buffer = <<>>, !.collecting = TRUE,
                   !.entered = "102"]
    ELSE IF state = "103" /\ s.collecting
    THEN LET s1 == calculate_initial_state(s) IN
         IF s1.exc THEN s1 ELSE [s1 EXCEPT !.collecting = FALSE]
    ELSE IF state = "104"
    THEN LET s1 == [s EXCEPT !.data_buffer = <<>>] IN
         [s1 EXCEPT !.fh = open_new_file(s1.fh, HeaderData(s1)),
                    !.collecting = TRUE, !.entered = "104"]
    ELSE IF state = "105" /\ s.collecting
    THEN LET s1 == process_data(s) IN
         IF s1.exc THEN s1
         ELSE [s1 EXCEPT !.collecting = FALSE, !.fh = close_file(s1.fh)]
    ELSE handle_record(s, line)

\* state_changed emitted for every code, "0" included
emit_state_always(s, state) == [s EXCEPT !.ev = Append(@, state_changed(state))]

\* lines 88-89: the status signal
emit_state(s, state) ==
    IF state # "0" THEN [s EXCEPT !.ev = Append(@, state_changed(state))]
    ELSE s

\* the body of "if line:" in run(), lines 87-114
HandleLine(s, line) ==
    IF Len(line) < 2 THEN [s EXCEPT !.exc = TRUE]
    ELSE Dispatch(emit_state(s, line[1]), line)

\* the worker object as a record
Self ==
    [collecting |-> collecting, data_buffer |-> data_buffer, pose |-> pose,
     fh |-> [file |-> file, session_index |-> session_index, disk |-> disk],
     entered |-> entered, exc |-> FALSE, ev |-> <<>>]

\* the acquisition phase of the protocol state machine
PhaseOf(c, e) ==
    IF ~c THEN "Idle" ELSE IF e = "102" THEN "Calibrating" ELSE "Recording"

Phase == PhaseOf(collecting, entered)

\* history of the pattern "104 met in Idle with no file open, then record
\* lines, then 105": st is "off", "on" (104 seen, records so far in recs) or
\* "ended" (the 105 was the last line handled); idx is the session index the
\* 104 met
NoSeq == [st |-> "off", idx |-> 0, recs |-> <<>>]

IsRecordLine(line) == Len(line) >= 2 /\ line[1] \notin ControlCodes

Seq104Next(line) ==
    IF Len(line) >= 2 /\ line[1] = "104" /\ Phase = "Idle" /\ file = None
    THEN [st |-> "on", idx |-> session_index, recs |-> <<>>]
    ELSE IF seq104.st = "on" /\ IsRecordLine(line)
    THEN [seq104 EXCEPT !.recs = Append(@, line)]
    ELSE IF seq104.st = "on" /\ Len(line) >= 2 /\ line[1] = "105"
    THEN [seq104 EXCEPT !.st = "ended"]
    ELSE NoSeq

----------------------------------------------------------------------------
(* Initial state: the window is shown, no worker exists *)

Init ==
    /\ running = FALSE
    /\ collecting = FALSE
    /\ data_buffer = <<>>
    /\ pose = NonePose
    /\ file = None
    /\ session_index = 1
    /\ disk = <<>>
    /\ pc = "none"
    /\ serOpen = FALSE
    /\ crashed = FALSE
    /\ startEnabled = TRUE
    /\ guiWaiting = FALSE
    /\ stopCalled = FALSE
    /\ entered = "none"
    /\ last = <<>>
    /\ nlines = 0
    /\ starts = 0
    /\ srcDown = FALSE
    /\ emitted = <<>>
    /\ seq104 = NoSeq

----------------------------------------------------------------------------
(* Presentation thread *)

isRunning == pc \in {"started", "open", "check", "read", "finally"}

\* START: a new SerialReader with a new FileHandler is created and started
start_reading ==
    /\ startEnabled /\ ~guiWaiting
    /\ starts < MaxStarts
    /\ starts' = starts + 1
    /\ startEnabled' = FALSE
    /\ running' = FALSE
    /\ collecting' = FALSE
    /\ data_buffer' = <<>>
    /\ pose' = NonePose
    /\ file' = None
    /\ session_index' = 1
    /\ pc' = "started"
    /\ crashed' = FALSE
    /\ stopCalled' = FALSE
    /\ entered' = "none"
    /\ last' = <<>>
    /\ seq104' = NoSeq
    /\ srcDown' = FALSE
    /\ emitted' = <<>>
    /\ UNCHANGED <<disk, serOpen, guiWaiting, nlines>>

\* END: stop() then wait() when the thread is running
close_app ==
    /\ ~guiWaiting
    /\ pc # "none"
    /\ IF isRunning
       THEN /\ running' = FALSE
            /\ stopCalled' = TRUE
            /\ guiWaiting' = TRUE
            /\ UNCHANGED startEnabled
       ELSE /\ startEnabled' = TRUE
            /\ UNCHANGED <<running, stopCalled, guiWaiting>>
    /\ UNCHANGED <<collecting, data_buffer, pose, file, session_index, disk,
                   pc, serOpen, crashed, entered, last, nlines, starts,
                   srcDown, emitted, seq104>>

\* wait() returns once run() has returned
wait_returns ==
    /\ guiWaiting
    /\ pc = "done"
    /\ guiWaiting' = FALSE
    /\ startEnabled' = TRUE
    /\ UNCHANGED <<running, collecting, data_buffer, pose, file, session_index,
                   disk, pc, serOpen, crashed, stopCalled, entered, last,
                   nlines, starts, srcDown, emitted, seq104>>

----------------------------------------------------------------------------
(* Worker thread: run() *)

\* self.running = True
run_begin ==
    /\ pc = "started"
    /\ running' = TRUE
    /\ pc' = "open"
    /\ UNCHANGED <<collecting, data_buffer, pose, file, session_index, disk,
                   serOpen, crashed, startEnabled, guiWaiting, stopCalled,
                   entered, last, nlines, starts, srcDown, emitted, seq104>>

\* ser = serial.Serial(...): on SerialException run() returns
open_serial ==
    /\ pc = "open"
    /\ \E ok \in BOOLEAN :
          IF ok THEN /\ serOpen' = TRUE /\ pc' = "check"
                     /\ UNCHANGED <<srcDown, emitted>>
                ELSE /\ serOpen' = FALSE /\ pc' = "done"
                     /\ srcDown' = TRUE
                     /\ emitted' = <<state_changed(SerialPortFailure)>>
    /\ UNCHANGED <<running, collecting, data_buffer, pose, file, session_index,
                   disk, crashed, startEnabled, guiWaiting, stopCalled,
                   entered, last, nlines, starts, seq104>>

\* while self.running
loop_check ==
    /\ pc = "check"
    /\ pc' = IF running THEN "read" ELSE "finally"
    /\ UNCHANGED <<running, collecting, data_buffer, pose, file, session_index,
                   disk, serOpen, crashed, startEnabled, guiWaiting,
                   stopCalled, entered, last, nlines, starts, srcDown,
                   emitted, seq104>>

\* readline() returned nothing within the timeout: "if line" is false
read_empty ==
    /\ pc = "read"
    /\ ~srcDown
    /\ pc' = "check"
    /\ last' = <<>>
    /\ emitted' = <<>>
    /\ UNCHANGED <<running, collecting, data_buffer, pose, file, session_index,
                   disk, serOpen, crashed, startEnabled, guiWaiting,
                   stopCalled, entered, nlines, starts, srcDown, seq104>>

\* readline() raised SerialException (the source is, or has just become,
\* unavailable) or decode() raised UnicodeDecodeError: continue
read_raises ==
    /\ pc = "read"
    /\ \E gone \in BOOLEAN : srcDown' = (srcDown \/ gone)
    /\ pc' = "check"
    /\ last' = <<>>
    /\ emitted' = <<>>
    /\ UNCHANGED <<running, collecting, data_buffer, pose, file, session_index,
                   disk, serOpen, crashed, startEnabled, guiWaiting,
                   stopCalled, entered, nlines, starts, seq104>>

\* readline() returned a line, which is handled
read_line ==
    /\ pc = "read"
    /\ ~srcDown
    /\ nlines < MaxLines
    /\ nlines' = nlines + 1
    /\ \E line \in Lines :
          LET s == HandleLine(Self, line) IN
          /\ collecting' = s.collecting
          /\ data_buffer' = s.data_buffer
          /\ pose' = s.pose
          /\ file' = s.fh.file
          /\ session_index' = s.fh.session_index
          /\ disk' = s.fh.disk
          /\ entered' = s.entered
          /\ crashed' = s.exc
          /\ pc' = IF s.exc THEN "finally" ELSE "check"
          /\ last' = line
          /\ emitted' = s.ev
          /\ seq104' = Seq104Next(line)
    /\ UNCHANGED <<running, serOpen, startEnabled, guiWaiting, stopCalled,
                   starts, srcDown>>

\* the cleanup placed after the loop instead of in a finally block: an
\* exception leaving the loop skips it
cleanup_after_loop ==
    /\ pc = "finally"
    /\ LET fh == IF crashed THEN Self.fh ELSE close_file(Self.fh) IN
       /\ file' = fh.file
       /\ session_index' = fh.session_index
       /\ disk' = fh.disk
    /\ serOpen' = (crashed /\ serOpen)
    /\ pc' = "done"
    /\ UNCHANGED <<running, collecting, data_buffer, pose, crashed,
                   startEnabled, guiWaiting, stopCalled, entered, last,
                   nlines, starts, srcDown, emitted, seq104>>

\* finally: self.file_handler.close_file(); ser.close()
finally ==
    /\ pc = "finally"
    /\ LET fh == close_file(Self.fh) IN
       /\ file' = fh.file
       /\ session_index' = fh.session_index
       /\ disk' = fh.disk
    /\ serOpen' = FALSE
    /\ pc' = "done"
    /\ UNCHANGED <<running, collecting, data_buffer, pose, crashed,
                   startEnabled, guiWaiting, stopCalled, entered, last,
                   nlines, starts, srcDown, emitted, seq104>>

Worker ==
    run_begin \/ open_serial \/ loop_check \/ read_empty \/ read_raises
    \/ read_line \/ finally

Next ==
    \/ start_reading
    \/ close_app
    \/ wait_returns
    \/ run_begin
    \/ open_serial
    \/ loop_check
    \/ read_empty
    \/ read_raises
    \/ read_line
    \/ finally

Spec == Init /\ [][Next]_vars

\* the worker is an operating-system thread that keeps being scheduled
FairSpec == Spec /\ WF_vars(Worker)

----------------------------------------------------------------------------
(* Notions the properties use *)

\* this step is the worker handling a non-empty line, which is last'
LineStep == nlines' # nlines

\* the status code of a line that has one
Code(line) == IF Len(line) >= 2 THEN line[1] ELSE "?"

\* session files whose handle is open
OpenFiles == {i \in DOMAIN disk : disk[i].open}

FileHandlerUnchanged ==
    /\ file' = file /\ session_index' = session_index /\ disk' = disk

\* a line is appended to the body of some session file in this step
BodyGrows ==
    \E i \in DOMAIN disk :
        i \in DOMAIN disk' /\ Len(disk'[i].body) > Len(disk[i].body)

\* no comma separator, wrong field count or a non-numeric field
Malformed(line) ==
    \/ Len(line) # NFields
    \/ \E j \in 1..Len(line) : ~IsNumeric(line[j])

----------------------------------------------------------------------------
(* Properties *)

\* C1: started from Idle with no file open, the lines 104, N records, 105
\* leave exactly one session file opened and closed (once a worker that an
\* error stopped has run its cleanup), whose body is exactly the N records in
\* arrival order.
C1_OneSessionFile ==
    (seq104.st = "ended" /\ pc # "finally") =>
        /\ session_index = seq104.idx + 1
        /\ file = None
        /\ OpenFiles = {}
        /\ seq104.idx \in DOMAIN disk
        /\ disk[seq104.idx].body = seq104.recs

\* 104, two records, 105 have been handled from Idle and the worker has
\* ended (no calibration came first, so batch processing raised at the 105)
C1_Witness ==
    /\ seq104.st = "ended" /\ Len(seq104.recs) = 2 /\ pc = "done"
    /\ disk[seq104.idx].body = <<RecA, RecB>>

\* C2: at most one session file is open, and it is the writer's; an open
\* while a file is open, a write with no file open and a close with no file
\* open leave the writer and every file as they were.
C2_SingleOpenFile ==
    /\ [](/\ Cardinality(OpenFiles) <= 1
          /\ (file # None => OpenFiles = {file})
          /\ (file = None => OpenFiles = {}))
    /\ [][((LineStep /\ file # None /\ Code(last') \in {"103", "104"})
              => FileHandlerUnchanged)
           /\ ((LineStep /\ file = None /\ IsRecordLine(last'))
              => FileHandlerUnchanged)
           /\ ((LineStep /\ file = None /\ Code(last') = "105")
              => FileHandlerUnchanged)
           /\ ((pc = "finally" /\ pc' = "done" /\ file = None)
              => FileHandlerUnchanged)]_vars

\* a 104 has just been handled while the file opened at 103 is still open
C2_Witness ==
    /\ last = <<"104", "0">> /\ pc = "check" /\ file = 1
    /\ session_index = 2 /\ pose # NonePose /\ disk[1].header = pose

\* C3: a line is appended to a session file only while Recording.
C3_WrittenOnlyWhileRecording ==
    [][(LineStep /\ BodyGrows) => Phase = "Recording"]_vars

\* C4: while Recording with a file open, the header of the open file is the
\* current calibration pose.
C4_HeaderIsCurrentPose ==
    (Phase = "Recording" /\ file # None) => disk[file].header = pose

\* C5: when a 105 ends Recording, the body of the open file is the buffer
\* batch processing consumes.
C5_BodyIsBuffer ==
    [][(LineStep /\ Code(last') = "105" /\ Phase = "Recording"
          /\ file # None)
       => disk[file].body = data_buffer]_vars

\* C6: a line that takes the machine out of Recording leaves no file open.
C6_ClosedOnLeavingRecording ==
    [][(LineStep /\ Phase = "Recording" /\ Phase' # "Recording")
       => file' = None]_vars

\* C7: a worker that has terminated, by the stop signal or by an error,
\* has no session file open and has released the line source.
C7_CleanupOnTermination ==
    pc = "done" => (file = None /\ OpenFiles = {} /\ ~serOpen)

\* the worker ended by an error raised while Recording, after its cleanup
C7_Witness ==
    /\ pc = "done" /\ crashed /\ collecting /\ entered = "104"
    /\ disk # <<>>

\* C8: once stop() has been called the worker eventually terminates.
C8_StopTerminates == stopCalled ~> (pc = "done")

\* C9: handling a malformed line, or a 103 or 105 over a buffer holding one,
\* raises no error that ends the read loop.
C9_MalformedSkipped ==
    [][(LineStep /\ (Malformed(last')
                      \/ \E i \in 1..Len(data_buffer) :
                            Malformed(data_buffer[i])))
       => (~crashed' /\ pc' = "check")]_vars

\* C10: "104,abc" received while Recording leaves the number of buffered
\* lines unchanged and raises no error.
C10_BadPayloadSkipped ==
    [][(LineStep /\ last' = <<"104", "abc">> /\ Phase = "Recording")
       => (Len(data_buffer') = Len(data_buffer) /\ ~crashed')]_vars

\* C11: a step that finds the line source unavailable, at the port open or
\* at a read, emits the one fatal status event and goes on to terminate.
C11_FatalOnSourceLoss ==
    [][(srcDown' /\ pc \in {"open", "read"} /\ pc' # pc)
       => (/\ emitted' = <<state_changed(SerialPortFailure)>>
           /\ pc' \in {"finally", "done"})]_vars

\* C12: handling a line changes the calibration pose only when the line is a
\* 103 met in Calibrating.
C12_PoseChangesOnlyAtCalibrationEnd ==
    [][(LineStep /\ pose' # pose)
       => (Code(last') = "103" /\ Phase = "Calibrating")]_vars

\* the status-code table of the protocol state machine
PhaseTable(phase, code) ==
    CASE code = "102" -> "Calibrating"
      [] code = "104" -> "Recording"
      [] code = "103" -> IF phase = "Calibrating" THEN "Idle" ELSE phase
      [] code = "105" -> IF phase = "Recording" THEN "Idle" ELSE phase
      [] OTHER -> phase

\* C13: every line handled without error changes the phase as the
\* status-code table says.
C13_PhaseFollowsTable ==
    [][(LineStep /\ ~crashed')
       => Phase' = PhaseTable(Phase, Code(last'))]_vars

\* C14 as claimed: the buffer is empty right after a 102 or 104 and whenever
\* the machine is Idle.
C14_BufferEmptyWhenIdle ==
    /\ (Code(last) \in {"102", "104"} => data_buffer = <<>>)
    /\ (Phase = "Idle" => data_buffer = <<>>)

\* C14 as amended: the buffer is empty right after a 102 or 104 and after a
\* 105 that ends a collecting phase without error; a 103, and any line other
\* than 102 and 104 met in Idle, leaves the buffer as it was.
C14_BufferClearedAtEntryAnd105 ==
    [][LineStep =>
         /\ (Code(last') \in {"102", "104"} => data_buffer' = <<>>)
         /\ ((Code(last') = "105" /\ collecting /\ ~crashed')
               => data_buffer' = <<>>)
         /\ (Code(last') = "103" => data_buffer' = data_buffer)
         /\ ((Phase = "Idle" /\ Code(last') \notin {"102", "104"})
               => data_buffer' = data_buffer)]_vars

\* a 103 has ended a phase and the machine is Idle with the lines of that
\* phase still buffered
C14_Witness ==
    /\ Phase = "Idle" /\ Code(last) = "103" /\ pc = "check"
    /\ data_buffer = <<RecA, RecB>>
    /\ emitted = <<state_changed("103"), initial_angles_calculated>>

\* the state_changed signals among those emitted
StatusEvents(ev) == SelectSeq(ev, LAMBDA e : e[1] = "state_changed")

\* the label table of the status event surface
LabelTable(code) ==
    CASE code = "101" -> "Standby"
      [] code = "102" -> "Leg zeroing started"
      [] code = "103" -> "Leg zeroing stopped"
      [] code = "104" -> "Reading started"
      [] code = "105" -> "Reading stopped"
      [] code = "106" -> "Magnetometer calibrating"
      [] code = "201" -> "ERROR - Low voltage"
      [] code = "202" -> "ERROR - Sensor malfunction"
      [] OTHER -> "ERROR - ???"

\* C15: a line with a code other than "0" causes exactly one status event,
\* carrying that code and emitted before any signal of the line's
\* transition, in every phase; a line with code "0" causes none; the label
\* shown for the event is the table's.
C15_OneStatusEventPerLine ==
    [][(LineStep /\ Len(last') >= 2) =>
         IF Code(last') = "0"
         THEN StatusEvents(emitted') = <<>>
         ELSE /\ StatusEvents(emitted') = <<state_changed(Code(last'))>>
              /\ emitted'[1] = state_changed(Code(last'))
              /\ update_status_label(emitted'[1][2])
                   = LabelTable(Code(last'))]_vars

\* a 103 has ended a calibration: its status event came before the
\* calibration event
C15_Witness ==
    /\ last = <<"103", "0">> /\ pc = "check"
    /\ emitted = <<state_changed("103"), initial_angles_calculated>>
    /\ update_status_label(emitted[1][2]) = "Leg zeroing stopped"

\* C16: a line with a code outside 102..105 leaves the phase, the pose, the
\* open file and the session index as they were and raises no error; met in
\* Idle it also leaves the buffer and every file as they were, and emits
\* nothing but its status event.
C16_OtherCodesChangeNothing ==
    [][(LineStep /\ IsRecordLine(last')) =>
         /\ Phase' = Phase /\ pose' = pose /\ file' = file
         /\ OpenFiles' = OpenFiles /\ session_index' = session_index
         /\ pc' = "check"
         /\ Phase = "Idle" =>
               /\ data_buffer' = data_buffer /\ disk' = disk
               /\ emitted' = StatusEvents(emitted')]_vars

\* the unrecognized code 999 has been handled in Idle while a file is open
\* and the buffer holds lines
C16_Witness ==
    /\ last = RecB /\ Phase = "Idle" /\ pc = "check"
    /\ emitted = <<state_changed("999")>>
    /\ file # None /\ data_buffer # <<>>

\* C17: a successful open never uses the index of a file written earlier
\* in the process.
C17_IndexNeverReused ==
    [][(file = None /\ file' # None) => file' \notin DOMAIN disk]_vars

\* C18: a 103 met in Calibrating with lines buffered stores a new pose,
\* leaves a file open that has no body lines, and emits one calibration
\* event; with nothing buffered it changes neither pose nor files and emits
\* no calibration event.
C18_CalibrationEnd ==
    [][(LineStep /\ Code(last') = "103" /\ Phase = "Calibrating") =>
         IF data_buffer # <<>>
         THEN /\ pose' # NonePose
              /\ file' # None
              /\ disk'[file'].body = <<>>
              /\ emitted' = <<state_changed("103"),
                               initial_angles_calculated>>
         ELSE /\ pose' = pose
              /\ FileHandlerUnchanged
              /\ emitted' = <<state_changed("103")>>]_vars

\* C19: a 105 that runs batch processing over buffered lines (all of them
\* numeric, so that the angle computation is reached) finds the calibration
\* pose set.
C19_BatchHasPose ==
    [][(LineStep /\ Code(last') = "105" /\ collecting
          /\ data_buffer # <<>> /\ ToArrayOk(data_buffer))
       => pose # NonePose]_vars

\* C20: no line with code 102, 103, 104 or 105 is in the buffer or in the
\* body of a session file.
C20_NoControlLinesStored ==
    /\ \A i \in 1..Len(data_buffer) :
          Code(data_buffer[i]) \notin ControlCodes
    /\ \A f \in DOMAIN disk : \A i \in 1..Len(disk[f].body) :
          Code(disk[f].body[i]) \notin ControlCodes

\* a 103 met in Idle has been dropped while the buffer and the open file
\* hold lines
C20_Witness ==
    /\ last = <<"103", "0">> /\ ~collecting /\ pc = "check"
    /\ emitted = <<state_changed("103")>>
    /\ data_buffer # <<>>
    /\ file # None /\ disk[file].body # <<>>

====
